---- MODULE Spec2Model ----
(***************************************************************************)
(* Model of the Olist e-commerce loading pipeline.                         *)
(*                                                                         *)
(*   scripts/enhanced_olist_loader.py   OlistDataLoader and main           *)
(*   scripts/data_field_and_types_raw.py   analyze_csv_files               *)
(*                                                                         *)
(* Three specifications share this module:                                 *)
(*   SpecCoerce   one column of one file through read_csv, the coercion    *)
(*                loop of load_csv_files and to_sql;                       *)
(*   SpecAnalyze  analyze_csv_files over a directory;                      *)
(*   Spec         main: connect, schemas, the per-table load loop, the     *)
(*                documentation, view and quality steps, and the exit.     *)
(*                                                                         *)
(* pandas and PostgreSQL are the program's collaborators.  Their behaviour *)
(* is modelled as pandas 2.x and PostgreSQL behave (the loader calls       *)
(* Connection.commit(), which needs SQLAlchemy 2 and hence pandas 2).      *)
(***************************************************************************)
EXTENDS Integers, Sequences, FiniteSets, TLC

VARIABLES
    \* ---- SpecCoerce: one column on its way to the store
    cphase,     \* "source" | "read" | "coerced" | "stored" | "failed"
    csrc,       \* the column's cells in the file, each a text
    cdecl,      \* the declared dtype of the column in config["dtypes"]
    cdate,      \* whether the column is listed in config["date_columns"]
    cframe,     \* df[col]: [dtype, vals]
    cstored,    \* the values written by to_sql
    \* ---- SpecAnalyze: analyze_csv_files
    aphase,     \* "start" | "loop" | "returned" | "raised"
    adir,       \* the directory listing: what each entry is
    acol,       \* the column of the readable files, as runs
    acsv,       \* csv_files
    apos,       \* index in csv_files of the next file of the loop
    aresults,   \* results: file name -> record
    araised,    \* whether an exception escaped analyze_csv_files
    \* ---- Spec: main and the loader
    pc,         \* position of main
    run,        \* number of the current run of the pipeline
    env,        \* the input files and the faults of the store (fixed over the runs)
    engine,     \* whether self.engine holds an engine (create_engine returned)
    tpos,       \* index in table_configs of the next entry of the load loop
    successful_loads,
    failed_loads,
    steps,      \* per processed entry: the steps load_csv_files performed for it
    store,      \* the PostgreSQL database: tables, indexes, views
    exitStatus, \* "none" | "success" | "failure"
    history,    \* one summary per finished run
    calls,      \* the methods main has called in this run, in order
    rets,       \* what the methods of calls have returned, in the same order
    counts,     \* per processed entry: the row count read back, -1 if none was
    qlog        \* the lines verify_data_quality has logged in this run

cvars == <<cphase, csrc, cdecl, cdate, cframe, cstored>>
avars == <<aphase, adir, acol, acsv, apos, aresults, araised>>
mvars == <<pc, run, env, engine, tpos, successful_loads, failed_loads, steps,
           store, exitStatus, history, calls, rets, counts, qlog>>
vars == <<cvars, avars, mvars>>

(***************************************************************************)
(* Texts.  A Python str is a sequence of one-character strings, so that    *)
(* parsing and formatting are computed, not assumed.                       *)
(***************************************************************************)
Digits == {"0", "1", "2", "3", "4", "5", "6", "7", "8", "9"}

DigitVal(c) ==
    CASE c = "0" -> 0 [] c = "1" -> 1 [] c = "2" -> 2 [] c = "3" -> 3
      [] c = "4" -> 4 [] c = "5" -> 5 [] c = "6" -> 6 [] c = "7" -> 7
      [] c = "8" -> 8 [] c = "9" -> 9

DigitChar(d) ==
    CASE d = 0 -> "0" [] d = 1 -> "1" [] d = 2 -> "2" [] d = 3 -> "3"
      [] d = 4 -> "4" [] d = 5 -> "5" [] d = 6 -> "6" [] d = 7 -> "7"
      [] d = 8 -> "8" [] d = 9 -> "9"

IsDigits(s) == Len(s) > 0 /\ \A i \in 1..Len(s) : s[i] \in Digits

RECURSIVE DigitsVal(_)
DigitsVal(s) ==
    IF s = <<>> THEN 0
    ELSE 10 * DigitsVal(SubSeq(s, 1, Len(s) - 1)) + DigitVal(s[Len(s)])

RECURSIVE IntToText(_)
IntToText(n) ==
    IF n < 10 THEN <<DigitChar(n)>>
    ELSE IntToText(n \div 10) \o <<DigitChar(n % 10)>>

\* The texts the model writes out in full.
T_empty == <<>>
T_NA    == <<"N", "/", "A">>
T_nan   == <<"n", "a", "n">>
T_3     == <<"3">>
T_5     == <<"5">>
T_01310 == <<"0", "1", "3", "1", "0">>
T_3p7   == <<"3", ".", "7">>
T_abc   == <<"a", "b", "c">>
T_inf   == <<"i", "n", "f">>
T_True  == <<"T", "r", "u", "e">>
T_False == <<"F", "a", "l", "s", "e">>
T_date  == <<"2", "0", "1", "7", "-", "1", "0", "-", "0", "2">>
T_9999  == <<"9", "9", "9", "9", "-", "1", "2", "-", "3", "1">>
T_None  == <<"N", "o", "n", "e">>
T_NaT   == <<"N", "a", "T">>

\* pandas' default na_values of read_csv (none is passed by the loader).
NaValues ==
    { T_empty, T_NA, T_nan,
      <<"#", "N", "/", "A">>, <<"#", "N", "/", "A", " ", "N", "/", "A">>,
      <<"#", "N", "A">>, <<"-", "1", ".", "#", "I", "N", "D">>,
      <<"-", "1", ".", "#", "Q", "N", "A", "N">>, <<"-", "N", "a", "N">>,
      <<"-", "n", "a", "n">>, <<"1", ".", "#", "I", "N", "D">>,
      <<"1", ".", "#", "Q", "N", "A", "N">>, <<"<", "N", "A", ">">>,
      <<"N", "A">>, <<"N", "U", "L", "L">>, <<"N", "a", "N">>, T_None,
      <<"n", "/", "a">>, <<"n", "u", "l", "l">> }

\* read_csv's default true_values and false_values.
TrueValues  == { T_True, <<"T", "R", "U", "E">>, <<"t", "r", "u", "e">> }
FalseValues == { T_False, <<"F", "A", "L", "S", "E">>, <<"f", "a", "l", "s", "e">> }

\* The non-finite numeric literals of the float grammar.
InfTexts ==
    { T_inf, <<"I", "n", "f">>, <<"I", "N", "F">>,
      <<"i", "n", "f", "i", "n", "i", "t", "y">>,
      <<"I", "n", "f", "i", "n", "i", "t", "y">> }

IsNA(t) == t \in NaValues
IsIntText(t) == IsDigits(t)
IsDecimalText(t) ==
    \E p \in 1..Len(t) :
        /\ t[p] = "."
        /\ IsDigits(SubSeq(t, 1, p - 1))
        /\ IsDigits(SubSeq(t, p + 1, Len(t)))
IsInfText(t) == t \in InfTexts
IsFloatText(t) == IsIntText(t) \/ IsDecimalText(t) \/ IsInfText(t)
IsBoolText(t) == t \in TrueValues \cup FalseValues

DaysInMonth(y, m) ==
    IF m = 2
    THEN (IF (y % 4 = 0 /\ y % 100 # 0) \/ y % 400 = 0 THEN 29 ELSE 28)
    ELSE (IF m \in {4, 6, 9, 11} THEN 30 ELSE 31)

\* The text of a calendar date, YYYY-MM-DD, of the years 0001 to 9999.
IsIsoDate(t) ==
    /\ Len(t) = 10
    /\ t[5] = "-" /\ t[8] = "-"
    /\ IsDigits(SubSeq(t, 1, 4)) /\ IsDigits(SubSeq(t, 6, 7))
    /\ IsDigits(SubSeq(t, 9, 10))
    /\ LET y == DigitsVal(SubSeq(t, 1, 4))
           m == DigitsVal(SubSeq(t, 6, 7))
           d == DigitsVal(SubSeq(t, 9, 10))
       IN  y \in 1..9999 /\ m \in 1..12 /\ d \in 1..DaysInMonth(y, m)

\* The first and the last day, as yyyymmdd, that a datetime64[ns] holds:
\* Timestamp.min is 1677-09-21 00:12:43.145224193 and Timestamp.max is
\* 2262-04-11 23:47:16.854775807.
TimestampMinDay == 16770922
TimestampMaxDay == 22620411

\* A calendar date that pandas parses to a Timestamp: one outside the range
\* raises OutOfBoundsDatetime.
IsDateText(t) ==
    /\ IsIsoDate(t)
    /\ LET n == DigitsVal(SubSeq(t, 1, 4)) * 10000
                + DigitsVal(SubSeq(t, 6, 7)) * 100 + DigitsVal(SubSeq(t, 9, 10))
       IN  n \in TimestampMinDay..TimestampMaxDay

(***************************************************************************)
(* Values of a pandas column.  k is the kind; n, e and s carry the value:  *)
(*   str (s)   int (n)   float (n / 10^e)   nan   inf   bool (n)           *)
(*   none (Python None)   ts (n = yyyymmdd)   nat                          *)
(*   bigint (s = the decimal digits of an int64 beyond the range of n)     *)
(***************************************************************************)
Val(k, n, e, s) == [k |-> k, n |-> n, e |-> e, s |-> s]
StrV(s)      == Val("str", 0, 0, s)
IntV(n)      == Val("int", n, 0, <<>>)
NaN          == Val("nan", 0, 0, <<>>)
Inf          == Val("inf", 0, 0, <<>>)
BoolV(b)     == Val("bool", IF b THEN 1 ELSE 0, 0, <<>>)
NoneV        == Val("none", 0, 0, <<>>)
TsV(n)       == Val("ts", n, 0, <<>>)
NaT          == Val("nat", 0, 0, <<>>)
BigIntV(s)   == Val("bigint", 0, 0, s)

RECURSIVE FloatV(_, _)
\* m / 10^e with the trailing zeros of the fraction removed
FloatV(m, e) ==
    IF e > 0 /\ m % 10 = 0 THEN FloatV(m \div 10, e - 1)
    ELSE Val("float", m, e, <<>>)

IsNull(v) == v.k \in {"nan", "none", "nat"}

\* The float a numeric text denotes.
FloatOfText(t) ==
    IF IsInfText(t) THEN Inf
    ELSE IF IsIntText(t) THEN FloatV(DigitsVal(t), 0)
    ELSE LET p == CHOOSE q \in 1..Len(t) : t[q] = "."
         IN  FloatV(DigitsVal(SubSeq(t, 1, p - 1) \o SubSeq(t, p + 1, Len(t))),
                    Len(t) - p)

TsOfText(t) ==
    TsV(DigitsVal(SubSeq(t, 1, 4)) * 10000 + DigitsVal(SubSeq(t, 6, 7)) * 100
        + DigitsVal(SubSeq(t, 9, 10)))

RECURSIVE ZeroPad(_, _)
ZeroPad(t, w) == IF Len(t) >= w THEN t ELSE ZeroPad(<<"0">> \o t, w)

\* str(int)
IntStr(n) == IF n < 0 THEN <<"-">> \o IntToText(0 - n) ELSE IntToText(n)

\* str(float) of m / 10^e, m without trailing zeros when e > 0: the shortest
\* repr.  It has a fractional part, and it is written with an exponent when
\* the decimal exponent is below -4 ('1e-05', '1.2e-05'); the exponent form
\* from 1e+16 on lies beyond the numbers of the model.
FloatStr(m, e) ==
    LET digs == IntToText(IF m < 0 THEN 0 - m ELSE m)
        x    == Len(digs) - 1 - e
        d    == ZeroPad(digs, e + 1)
        sign == IF m < 0 THEN <<"-">> ELSE <<>>
    IN  sign \o
        (IF e = 0 THEN digs \o <<".", "0">>
         ELSE IF x < 0 - 4
         THEN <<Head(digs)>>
              \o (IF Len(digs) > 1 THEN <<".">> \o Tail(digs) ELSE <<>>)
              \o <<"e", "-">> \o ZeroPad(IntToText(0 - x), 2)
         ELSE SubSeq(d, 1, Len(d) - e) \o <<".">>
              \o SubSeq(d, Len(d) - e + 1, Len(d)))

TsStr(n) ==
    ZeroPad(IntToText(n \div 10000), 4) \o <<"-">>
    \o ZeroPad(IntToText((n \div 100) % 100), 2) \o <<"-">>
    \o ZeroPad(IntToText(n % 100), 2)

\* str(value), as Series.astype(str) applies it to each element
StrOf(v) ==
    CASE v.k = "str"   -> v.s
      [] v.k = "int"   -> IntStr(v.n)
      [] v.k = "float" -> FloatStr(v.n, v.e)
      [] v.k = "nan"   -> T_nan
      [] v.k = "inf"   -> T_inf
      [] v.k = "bool"  -> (IF v.n = 1 THEN T_True ELSE T_False)
      [] v.k = "none"  -> T_None
      [] v.k = "ts"    -> TsStr(v.n)
      [] v.k = "nat"   -> T_NaT
      [] v.k = "bigint" -> v.s

(***************************************************************************)
(* pandas.read_csv, one column at a time (loader line 258, analyzer        *)
(* line 31).  A column is the sequence of its cell texts.                  *)
(***************************************************************************)
Frame(dtype, vals) == [dtype |-> dtype, vals |-> vals]
EmptyFrame == Frame("none", <<>>)

NonNA(col) == {i \in 1..Len(col) : ~IsNA(col[i])}
HasNA(col) == \E i \in 1..Len(col) : IsNA(col[i])

\* The storage type the C parser gives a column: it tries int64, float64,
\* bool and falls back to object; a missing cell turns int64 into float64
\* and bool into object.
InferDtype(col) ==
    IF Len(col) = 0 THEN "object"
    ELSE IF \A i \in NonNA(col) : IsIntText(col[i])
         THEN (IF HasNA(col) THEN "float64" ELSE "int64")
    ELSE IF \A i \in NonNA(col) : IsFloatText(col[i]) THEN "float64"
    ELSE IF \A i \in NonNA(col) : IsBoolText(col[i])
         THEN (IF HasNA(col) THEN "object" ELSE "bool")
    ELSE "object"

\* One cell of a column the parser typed as dtype; allBool tells the object
\* column of booleans with missing cells from the object column of texts.
ReadCell(t, dtype, allBool) ==
    IF dtype = "int64" THEN IntV(DigitsVal(t))
    ELSE IF IsNA(t) THEN NaN
    ELSE IF dtype = "float64" THEN FloatOfText(t)
    ELSE IF dtype = "bool" \/ allBool THEN BoolV(t \in TrueValues)
    ELSE StrV(t)

\* read_csv(file_path, parse_dates=...): parseDates says the column is in
\* the parse_dates list.  Such a column is kept as text and converted as a
\* whole: if one cell does not parse, the column stays text.  The column of
\* a file without data rows is not converted: it is an empty object column.
ReadCsv(col, parseDates) ==
    IF parseDates
    THEN IF Len(col) > 0 /\ \A i \in NonNA(col) : IsDateText(col[i])
         THEN Frame("datetime64[ns]",
                    [i \in 1..Len(col) |->
                        IF IsNA(col[i]) THEN NaT ELSE TsOfText(col[i])])
         ELSE Frame("object",
                    [i \in 1..Len(col) |->
                        IF IsNA(col[i]) THEN NaN ELSE StrV(col[i])])
    ELSE LET dtype == InferDtype(col)
             allBool == \A i \in NonNA(col) : IsBoolText(col[i])
         IN  Frame(dtype,
                   [i \in 1..Len(col) |-> ReadCell(col[i], dtype, allBool)])

(***************************************************************************)
(* The pandas operations of the coercion loop (loader lines 268-279).      *)
(***************************************************************************)
\* Series.astype(str): every element, missing ones included, becomes text.
AsTypeStr(f) ==
    Frame("object", [i \in 1..Len(f.vals) |-> StrV(StrOf(f.vals[i]))])

\* A replace that fills from the row above instead of writing None.
ReplacePad(f, text) ==
    Frame(f.dtype,
          [i \in 1..Len(f.vals) |->
              IF f.vals[i] = StrV(text) /\ i > 1 THEN f.vals[i - 1]
              ELSE f.vals[i]])

\* Series.replace(text, None) with the value passed explicitly.
ReplaceWithNone(f, text) ==
    Frame(f.dtype,
          [i \in 1..Len(f.vals) |->
              IF f.vals[i] = StrV(text) THEN NoneV ELSE f.vals[i]])

\* What pd.to_numeric makes of one element of an object column.
NumericOfObject(v) ==
    CASE v.k = "str"  -> (IF IsIntText(v.s) THEN IntV(DigitsVal(v.s))
                          ELSE IF IsFloatText(v.s) THEN FloatOfText(v.s)
                          ELSE NaN)
      [] v.k = "bool" -> IntV(v.n)
      [] OTHER        -> NaN

AsFloat(v) == IF v.k = "int" THEN FloatV(v.n, 0) ELSE v

\* The days from 1970-01-01 to the day y-m-d of the Gregorian calendar.
DaysFromCivil(y, m, d) ==
    LET yy  == IF m <= 2 THEN y - 1 ELSE y
        era == yy \div 400
        yoe == yy - era * 400
        mp  == (m + 9) % 12
        doy == (153 * mp + 2) \div 5 + d - 1
        doe == yoe * 365 + yoe \div 4 - yoe \div 100 + doy
    IN  era * 146097 + doe - 719468

\* The digits of the smallest int64, the int64 view of NaT.
Int64MinDigits ==
    <<"-", "9", "2", "2", "3", "3", "7", "2", "0", "3", "6", "8",
      "5", "4", "7", "7", "5", "8", "0", "8">>

\* The int64 view of a datetime64[ns] value: the nanoseconds since the
\* epoch, days * 864 * 10^11, and the smallest int64 for NaT.
Int64View(v) ==
    IF v.k = "nat"
    THEN BigIntV(Int64MinDigits)
    ELSE LET days == DaysFromCivil(v.n \div 10000, (v.n \div 100) % 100, v.n % 100)
             zeros == [i \in 1..11 |-> "0"]
         IN  IF days = 0 THEN IntV(0)
             ELSE IF days > 0 THEN BigIntV(IntToText(days * 864) \o zeros)
             ELSE BigIntV(<<"-">> \o IntToText((0 - days) * 864) \o zeros)

\* pd.to_numeric(series, errors='coerce'): a numeric or boolean column is
\* returned as it is; a datetime column becomes its int64 view; an object
\* column is parsed element by element, what does not parse becomes NaN,
\* and the result is float64 unless every element is an integer.
ToNumericCoerce(f) ==
    IF f.dtype \in {"int64", "float64", "bool"} THEN f
    ELSE IF f.dtype = "datetime64[ns]"
    THEN Frame("int64", [i \in 1..Len(f.vals) |-> Int64View(f.vals[i])])
    ELSE LET nums == [i \in 1..Len(f.vals) |-> NumericOfObject(f.vals[i])]
         IN  IF \A i \in 1..Len(nums) : nums[i].k = "int"
             THEN Frame("int64", nums)
             ELSE Frame("float64", [i \in 1..Len(nums) |-> AsFloat(nums[i])])

\* Series.fillna(0)
FillnaZero(f) ==
    Frame(f.dtype,
          [i \in 1..Len(f.vals) |->
              IF IsNull(f.vals[i])
              THEN (IF f.dtype = "float64" THEN FloatV(0, 0) ELSE IntV(0))
              ELSE f.vals[i]])

RECURSIVE Pow10(_)
Pow10(e) == IF e = 0 THEN 1 ELSE 10 * Pow10(e - 1)

\* The integer a float is cast to: the fraction is cut off, towards zero.
TruncFloat(m, e) ==
    IF m < 0 THEN 0 - ((0 - m) \div Pow10(e)) ELSE m \div Pow10(e)

\* Series.astype(int) raises on a non-finite value.
AsTypeIntRaises(f) == \E i \in 1..Len(f.vals) : f.vals[i].k \in {"nan", "inf"}

\* Series.astype(int): a float is truncated.
AsTypeInt(f) ==
    Frame("int64",
          [i \in 1..Len(f.vals) |->
              IF f.vals[i].k = "float"
              THEN IntV(TruncFloat(f.vals[i].n, f.vals[i].e))
              ELSE IF f.vals[i].k = "bigint" THEN f.vals[i]
              ELSE IntV(f.vals[i].n)])

\* pd.to_datetime(series, errors='coerce') does not raise: the TypeError
\* of a boolean column is coerced as well, to a column of NaT.
ToDatetimeRaises(f) == FALSE

\* The day, as yyyymmdd, that lies z days after 1970-01-01.
CivilFromDays(z) ==
    LET zz  == z + 719468
        era == zz \div 146097
        doe == zz - era * 146097
        yoe == (doe - doe \div 1460 + doe \div 36524 - doe \div 146096) \div 365
        doy == doe - (365 * yoe + yoe \div 4 - yoe \div 100)
        mp  == (5 * doy + 2) \div 153
        d   == doy - (153 * mp + 2) \div 5 + 1
        m   == IF mp < 10 THEN mp + 3 ELSE mp - 9
        y   == yoe + era * 400 + (IF m <= 2 THEN 1 ELSE 0)
    IN  y * 10000 + m * 100 + d

\* The timestamp of an int64 given by its digits, taken as nanoseconds since
\* the epoch: the day is the floor of value / (864 * 10^11); the smallest
\* int64 is NaT.
TsOfInt64Digits(s) ==
    IF s = Int64MinDigits THEN NaT
    ELSE LET neg  == Head(s) = "-"
             mag  == IF neg THEN Tail(s) ELSE s
             high == IF Len(mag) > 11 THEN DigitsVal(SubSeq(mag, 1, Len(mag) - 11)) ELSE 0
             low  == IF Len(mag) > 11 THEN SubSeq(mag, Len(mag) - 10, Len(mag)) ELSE mag
             part == (high % 864 # 0) \/ (\E i \in 1..Len(low) : low[i] # "0")
         IN  IF ~neg THEN TsV(CivilFromDays(high \div 864))
             ELSE TsV(CivilFromDays(0 - (high \div 864) - (IF part THEN 1 ELSE 0)))

\* pd.to_datetime(series, errors='coerce'): text that is no date becomes NaT;
\* a number is taken as nanoseconds since the epoch (1970-01-01), a float
\* after its fraction is cut off; so one of less than a day falls on
\* 1970-01-01, or on 1969-12-31 when it is below zero.
ToDatetimeCoerce(f) ==
    Frame("datetime64[ns]",
          [i \in 1..Len(f.vals) |->
              LET v == f.vals[i]
              IN  CASE v.k = "ts" -> v
                    [] v.k = "str" /\ IsDateText(v.s) -> TsOfText(v.s)
                    [] v.k = "int" ->
                          (IF v.n < 0 THEN TsV(19691231) ELSE TsV(19700101))
                    [] v.k = "float" ->
                          (IF TruncFloat(v.n, v.e) < 0 THEN TsV(19691231)
                           ELSE TsV(19700101))
                    [] v.k = "bigint" -> TsOfInt64Digits(v.s)
                    [] OTHER -> NaT])

StringMutantPad(f) == ReplacePad(AsTypeStr(f), T_nan)

\* dtype == "string":  df[col].astype(str).replace('nan', None)
CoerceString(f) == ReplaceWithNone(AsTypeStr(f), T_nan)

\* dtype == "float":  pd.to_numeric(df[col], errors='coerce')
CoerceFloat(f) == ToNumericCoerce(f)

\* dtype == "int":  pd.to_numeric(...).fillna(0).astype(int)
CoerceIntRaises(f) == AsTypeIntRaises(FillnaZero(ToNumericCoerce(f)))
CoerceInt(f) == AsTypeInt(FillnaZero(ToNumericCoerce(f)))

\* One iteration of the loop over config["dtypes"] for a column that is in
\* df.columns: [raised, frame].
CoerceRaises(f, dtype, inDateColumns) ==
    \/ dtype = "int" /\ CoerceIntRaises(f)
    \/ dtype = "datetime" /\ ~inDateColumns /\ ToDatetimeRaises(f)

Coerce(f, dtype, inDateColumns) ==
    CASE dtype = "string" -> CoerceString(f)
      [] dtype = "int"    -> CoerceInt(f)
      [] dtype = "float"  -> CoerceFloat(f)
      [] dtype = "datetime" ->
            (IF inDateColumns THEN f ELSE ToDatetimeCoerce(f))
      [] OTHER -> f

\* df.to_sql(...): every value is written as it is, a missing one as NULL.
ToSql(f) ==
    [i \in 1..Len(f.vals) |-> IF IsNull(f.vals[i]) THEN NoneV ELSE f.vals[i]]

(***************************************************************************)
(* The registry of the loader.                                             *)
(***************************************************************************)
\* self.table_configs, in the order of the dict (primary_key is never read)
table_configs ==
  <<
    [ file |-> "olist_customers_dataset.csv",
      table_name |-> "customers",
      schema |-> "raw_data",
      dtypes |->
       << <<"customer_id", "string">>,
          <<"customer_unique_id", "string">>,
          <<"customer_zip_code_prefix", "string">>,
          <<"customer_city", "string">>,
          <<"customer_state", "string">> >>,
      date_columns |-> {},
      indexes |-> <<"customer_unique_id", "customer_state", "customer_zip_code_prefix">> ],
    [ file |-> "olist_geolocation_dataset.csv",
      table_name |-> "geolocation",
      schema |-> "raw_data",
      dtypes |->
       << <<"geolocation_zip_code_prefix", "string">>,
          <<"geolocation_lat", "float">>,
          <<"geolocation_lng", "float">>,
          <<"geolocation_city", "string">>,
          <<"geolocation_state", "string">> >>,
      date_columns |-> {},
      indexes |-> <<"geolocation_zip_code_prefix", "geolocation_state">> ],
    [ file |-> "olist_orders_dataset.csv",
      table_name |-> "orders",
      schema |-> "raw_data",
      dtypes |->
       << <<"order_id", "string">>,
          <<"customer_id", "string">>,
          <<"order_status", "string">>,
          <<"order_purchase_timestamp", "datetime">>,
          <<"order_approved_at", "datetime">>,
          <<"order_delivered_carrier_date", "datetime">>,
          <<"order_delivered_customer_date", "datetime">>,
          <<"order_estimated_delivery_date", "datetime">> >>,
      date_columns |-> {"order_purchase_timestamp", "order_approved_at", "order_delivered_carrier_date", "order_delivered_customer_date", "order_estimated_delivery_date"},
      indexes |-> <<"customer_id", "order_status", "order_purchase_timestamp">> ],
    [ file |-> "olist_order_items_dataset.csv",
      table_name |-> "order_items",
      schema |-> "raw_data",
      dtypes |->
       << <<"order_id", "string">>,
          <<"order_item_id", "int">>,
          <<"product_id", "string">>,
          <<"seller_id", "string">>,
          <<"shipping_limit_date", "datetime">>,
          <<"price", "float">>,
          <<"freight_value", "float">> >>,
      date_columns |-> {"shipping_limit_date"},
      indexes |-> <<"order_id", "product_id", "seller_id">> ],
    [ file |-> "olist_order_payments_dataset.csv",
      table_name |-> "order_payments",
      schema |-> "raw_data",
      dtypes |->
       << <<"order_id", "string">>,
          <<"payment_sequential", "int">>,
          <<"payment_type", "string">>,
          <<"payment_installments", "int">>,
          <<"payment_value", "float">> >>,
      date_columns |-> {},
      indexes |-> <<"order_id", "payment_type">> ],
    [ file |-> "olist_order_reviews_dataset.csv",
      table_name |-> "order_reviews",
      schema |-> "raw_data",
      dtypes |->
       << <<"review_id", "string">>,
          <<"order_id", "string">>,
          <<"review_score", "int">>,
          <<"review_comment_title", "string">>,
          <<"review_comment_message", "string">>,
          <<"review_creation_date", "datetime">>,
          <<"review_answer_timestamp", "datetime">> >>,
      date_columns |-> {"review_creation_date", "review_answer_timestamp"},
      indexes |-> <<"order_id", "review_score", "review_creation_date">> ],
    [ file |-> "olist_products_dataset.csv",
      table_name |-> "products",
      schema |-> "raw_data",
      dtypes |->
       << <<"product_id", "string">>,
          <<"product_category_name", "string">>,
          <<"product_name_lenght", "float">>,
          <<"product_description_lenght", "float">>,
          <<"product_photos_qty", "float">>,
          <<"product_weight_g", "float">>,
          <<"product_length_cm", "float">>,
          <<"product_height_cm", "float">>,
          <<"product_width_cm", "float">> >>,
      date_columns |-> {},
      indexes |-> <<"product_category_name">> ],
    [ file |-> "olist_sellers_dataset.csv",
      table_name |-> "sellers",
      schema |-> "raw_data",
      dtypes |->
       << <<"seller_id", "string">>,
          <<"seller_zip_code_prefix", "string">>,
          <<"seller_city", "string">>,
          <<"seller_state", "string">> >>,
      date_columns |-> {},
      indexes |-> <<"seller_state", "seller_zip_code_prefix">> ],
    [ file |-> "product_category_name_translation.csv",
      table_name |-> "product_category_translation",
      schema |-> "raw_data",
      dtypes |->
       << <<"product_category_name", "string">>,
          <<"product_category_name_english", "string">> >>,
      date_columns |-> {},
      indexes |-> <<>> ]
  >>

NumTables == Len(table_configs)
TableNames == {table_configs[i].table_name : i \in 1..NumTables}

DateColumnsNone(cfg) == {}

\* config["date_columns"] (lines 260 and 278)
DateColumns(cfg) == cfg.date_columns

\* The dtype of every declared column of the registry, with whether the
\* column is in the date_columns of its entry.
DeclaredKinds ==
    UNION { { <<table_configs[i].dtypes[k][2],
                table_configs[i].dtypes[k][1] \in DateColumns(table_configs[i])>> :
                k \in 1..Len(table_configs[i].dtypes) } :
            i \in 1..Len(table_configs) }

DeclaredColumns(cfg) == {cfg.dtypes[k][1] : k \in 1..Len(cfg.dtypes)}
HasIntColumn(cfg) == \E k \in 1..Len(cfg.dtypes) : cfg.dtypes[k][2] = "int"

(***************************************************************************)
(* SpecCoerce: one declared column of one table, from the file to the      *)
(* store.                                                                  *)
(***************************************************************************)
MaxRows == 3

\* The cell contents a column is drawn from: missing cells and null
\* markers, integers with and without leading zeros, a decimal, free text,
\* a non-finite number, a boolean literal and a date.
CellTexts ==
    { T_empty, T_NA, T_nan, T_3, T_5, T_01310, T_3p7, T_abc, T_inf, T_True,
      T_date }

Columns == UNION { [1..n -> CellTexts] : n \in 1..MaxRows }

\* The declared types of config["dtypes"].
Dtypes == {"string", "int", "float", "datetime"}

AIdle ==
    /\ aphase = "idle" /\ adir = <<>> /\ acol = <<>> /\ acsv = <<>> /\ apos = 0
    /\ aresults = <<>> /\ araised = FALSE

MIdle ==
    /\ pc = "idle" /\ run = 0 /\ env = <<>> /\ engine = FALSE /\ tpos = 0
    /\ successful_loads = <<>> /\ failed_loads = <<>> /\ steps = <<>>
    /\ store = <<>> /\ exitStatus = "none" /\ history = <<>>
    /\ calls = <<>> /\ rets = <<>> /\ counts = <<>> /\ qlog = <<>>

\* The column is one of the declared columns of table_configs: its dtype,
\* and whether config["date_columns"] lists it.
CInit ==
    /\ cphase = "source"
    /\ csrc \in Columns
    /\ \E d \in DeclaredKinds : cdecl = d[1] /\ cdate = d[2]
    /\ cframe = EmptyFrame
    /\ cstored = <<>>
    /\ AIdle /\ MIdle

\* df = pd.read_csv(file_path, parse_dates=config["date_columns"] ...)
CReadCsv ==
    /\ cphase = "source"
    /\ cframe' = ReadCsv(csrc, cdate)
    /\ cphase' = "read"
    /\ UNCHANGED <<csrc, cdecl, cdate, cstored, avars, mvars>>

\* the body of "for col, dtype in config['dtypes'].items()" for the column;
\* an exception leaves the try block and the table is not written
CCoerce ==
    /\ cphase = "read"
    /\ IF CoerceRaises(cframe, cdecl, cdate)
       THEN cphase' = "failed" /\ UNCHANGED cframe
       ELSE cphase' = "coerced" /\ cframe' = Coerce(cframe, cdecl, cdate)
    /\ UNCHANGED <<csrc, cdecl, cdate, cstored, avars, mvars>>

\* df.to_sql(name=..., if_exists='replace', ...)
CToSql ==
    /\ cphase = "coerced"
    /\ cstored' = ToSql(cframe)
    /\ cphase' = "stored"
    /\ UNCHANGED <<csrc, cdecl, cdate, cframe, avars, mvars>>

CNext == CReadCsv \/ CCoerce \/ CToSql

SpecCoerce == CInit /\ [][CNext]_vars

\* A cell whose text is no number: a missing cell, free text, a boolean
\* literal, a date.
Unparseable(t) == ~IsFloatText(t)

CoerceDone == cphase \in {"coerced", "stored"}
CoerceTried == cphase \in {"coerced", "stored", "failed"}

\* C3: every non-null text of a column declared string is stored as exactly
\* the same text ("01310" as "01310").
C3_StringTextPreserved ==
    (cphase = "stored" /\ cdecl = "string") =>
        \A i \in 1..Len(csrc) :
            ~IsNA(csrc[i]) => cstored[i] = StrV(csrc[i])

\* C4: for a column declared int the coercion returns a column of the same
\* length in which what is no number is 0, an integer is that integer and
\* nothing is null.
C4_IntCoercion ==
    (CoerceTried /\ cdecl = "int") =>
        /\ cphase # "failed"
        /\ Len(cframe.vals) = Len(csrc)
        /\ \A i \in 1..Len(csrc) :
            /\ Unparseable(csrc[i]) => cframe.vals[i] = IntV(0)
            /\ IsIntText(csrc[i]) => cframe.vals[i] = IntV(DigitsVal(csrc[i]))
            /\ ~IsNull(cframe.vals[i])

\* C5: for a column declared float the coercion returns a column of the
\* same length in which what is no number is null and a number keeps its
\* value; 0 never stands for what is no number.
C5_FloatCoercion ==
    (CoerceTried /\ cdecl = "float") =>
        /\ cphase # "failed"
        /\ Len(cframe.vals) = Len(csrc)
        /\ \A i \in 1..Len(csrc) :
            /\ Unparseable(csrc[i]) => IsNull(cframe.vals[i])
            /\ IsFloatText(csrc[i]) => AsFloat(cframe.vals[i]) = FloatOfText(csrc[i])

\* C6: after the coercion of a column declared string no entry is the text
\* 'nan'; every cell missing in the source is a true null, whatever the row
\* above it holds.
C6_StringNulls ==
    (CoerceDone /\ cdecl = "string") =>
        /\ Len(cframe.vals) = Len(csrc)
        /\ \A i \in 1..Len(csrc) :
            /\ cframe.vals[i] # StrV(T_nan)
            /\ IsNA(csrc[i]) => cframe.vals[i] = NoneV

\* a string column with a missing cell below a filled one has been coerced
C6_Witness ==
    /\ cphase = "coerced" /\ cdecl = "string"
    /\ \E i \in 2..Len(csrc) : IsNA(csrc[i]) /\ ~IsNA(csrc[i - 1])
    /\ \E i \in 1..Len(csrc) : csrc[i] = T_nan

(***************************************************************************)
(* analyze_csv_files (data_field_and_types_raw.py lines 7-82).             *)
(*                                                                         *)
(* A column is given by its runs: <<[tok, n], ...>> stands for n cells of  *)
(* text tok, then the next run.  read_csv types a column from the set of   *)
(* its cells and converts cell by cell, so the column is read run by run.  *)
(***************************************************************************)
HeadSample == 100   \* .head(100)
HeadValues == 3     \* .head(3)

MaxRuns == 2
MaxFiles == 2

\* Cells of the profiled column: a missing cell, an integer, free text, a
\* boolean literal, a date, a date beyond the range of a Timestamp.
ProfileTexts == { T_empty, T_3, T_abc, T_True, T_date, T_9999 }

Runs == [tok : ProfileTexts, n : {1, HeadSample}]
RunColumns == UNION { [1..k -> Runs] : k \in 0..MaxRuns }

RunToks(rc) == [i \in 1..Len(rc) |-> rc[i].tok]

\* df[column] of pd.read_csv(file_path): the values and the length of each run
RunFrame(rc) ==
    LET f == ReadCsv(RunToks(rc), FALSE)
    IN  [dtype |-> f.dtype, vals |-> f.vals,
         cnt |-> [i \in 1..Len(rc) |-> rc[i].n]]

RECURSIVE SumCnt(_, _)
SumCnt(rf, keep) ==
    IF rf.vals = <<>> THEN 0
    ELSE (IF keep[Head(rf.vals).k] THEN Head(rf.cnt) ELSE 0)
         + SumCnt([rf EXCEPT !.vals = Tail(@), !.cnt = Tail(@)], keep)

ValueKinds ==
    {"str", "int", "float", "nan", "inf", "bool", "none", "ts", "nat", "bigint"}
NullKinds == {"nan", "none", "nat"}

\* len(df), df[column].count(), df[column].isnull().sum(), .nunique()
RowCount(rf)     == SumCnt(rf, [k \in ValueKinds |-> TRUE])
NonNullCount(rf) == SumCnt(rf, [k \in ValueKinds |-> k \notin NullKinds])
NullCount(rf)    == SumCnt(rf, [k \in ValueKinds |-> k \in NullKinds])
UniqueCount(rf) ==
    Cardinality({rf.vals[i] : i \in {j \in 1..Len(rf.vals) : ~IsNull(rf.vals[j])}})

RECURSIVE DropnaHead(_, _, _)
\* df[column].dropna().head(k): the runs of the first k non-null values
DropnaHead(vals, cnt, k) ==
    IF vals = <<>> \/ k = 0 THEN <<>>
    ELSE IF IsNull(Head(vals)) THEN DropnaHead(Tail(vals), Tail(cnt), k)
    ELSE LET take == IF Head(cnt) < k THEN Head(cnt) ELSE k
         IN  <<[v |-> Head(vals), n |-> take]>>
             \o DropnaHead(Tail(vals), Tail(cnt), k - take)

RECURSIVE Expand(_)
\* .tolist()
Expand(runs) ==
    IF runs = <<>> THEN <<>>
    ELSE [i \in 1..Head(runs).n |-> Head(runs).v] \o Expand(Tail(runs))

\* pd.to_datetime(sample, errors='raise') raises unless every value is the
\* text of a date.
ToDatetimeStrictRaises(sample) ==
    \E i \in 1..Len(sample) :
        ~(sample[i].v.k = "str" /\ IsDateText(sample[i].v.s))

\* pd.to_numeric(sample, errors='raise') raises on a text that is no number.
ToNumericStrictRaises(sample) ==
    \E i \in 1..Len(sample) :
        sample[i].v.k = "str" /\ ~IsFloatText(sample[i].v.s)

\* "Try to infer better data type" (lines 51-67)
SuggestedType(rf) ==
    IF rf.dtype = "object"
    THEN LET sample == DropnaHead(rf.vals, rf.cnt, HeadSample)
         IN  IF ~ToDatetimeStrictRaises(sample) THEN "datetime"
             ELSE IF ~ToNumericStrictRaises(sample) THEN "numeric"
             ELSE "string"
    ELSE IF rf.dtype \in {"int64", "float64"} THEN "numeric"
    ELSE rf.dtype

\* column_info (lines 43-67)
ColumnInfo(rf) ==
    [ dtype          |-> rf.dtype,
      non_null_count |-> NonNullCount(rf),
      null_count     |-> NullCount(rf),
      unique_count   |-> UniqueCount(rf),
      sample_values  |-> IF RowCount(rf) # 0
                         THEN Expand(DropnaHead(rf.vals, rf.cnt, HeadValues))
                         ELSE <<>>,
      suggested_type |-> SuggestedType(rf) ]

\* file_info (lines 34-39 and 69) of a file with the one column rc
FileInfo(name, rc) ==
    [ kind          |-> "profile",
      file_name     |-> name,
      total_rows    |-> RowCount(RunFrame(rc)),
      total_columns |-> 1,
      columns       |-> <<ColumnInfo(RunFrame(rc))>> ]

\* {'error': str(e)}
ErrorInfo(message) == [kind |-> "error", error |-> message]

\* What a directory entry is: a csv file pandas reads, a csv file on which
\* read_csv raises, or a file whose name does not end in '.csv'.
FileKinds == {"ok", "malformed", "undecodable", "not_csv"}

\* The exception read_csv raises on the file, "none" if it reads it.
ReadCsvError(kind) ==
    CASE kind = "malformed"   -> "ParserError"
      [] kind = "undecodable" -> "UnicodeDecodeError"
      [] OTHER                -> "none"

ExceptOnlyParserError(exc) == exc = "ParserError"

\* "except Exception as e" (line 78): both are subclasses of Exception.
ExceptException(exc) == exc \in {"ParserError", "UnicodeDecodeError"}

Directories == UNION { [1..k -> FileKinds] : k \in 0..MaxFiles }

CIdle ==
    /\ cphase = "idle" /\ csrc = <<>> /\ cdecl = "none" /\ cdate = FALSE
    /\ cframe = EmptyFrame /\ cstored = <<>>

\* adir[i] is the i-th name of os.listdir(data_directory); the files are
\* named by their position.  acol is the column every readable file holds.
AInit ==
    /\ aphase = "start"
    /\ adir \in Directories
    /\ acol \in RunColumns
    /\ acsv = <<>>
    /\ apos = 0
    /\ aresults = <<>>
    /\ araised = FALSE
    /\ CIdle /\ MIdle

\* results = {}; csv_files = [f for f in os.listdir(...) if f.endswith('.csv')]
AListDir ==
    /\ aphase = "start"
    /\ acsv' = SelectSeq([i \in 1..Len(adir) |-> i], LAMBDA i : adir[i] # "not_csv")
    /\ apos' = 1
    /\ aphase' = "loop"
    /\ UNCHANGED <<adir, acol, aresults, araised, cvars, mvars>>

Put(f, key, value) ==
    [k \in DOMAIN f \cup {key} |-> IF k = key THEN value ELSE f[k]]

\* one iteration of "for csv_file in csv_files" (lines 25-80)
AAnalyzeFile ==
    /\ aphase = "loop"
    /\ apos <= Len(acsv)
    /\ LET name == acsv[apos]
           exc == ReadCsvError(adir[name])
       IN  IF exc = "none"
           THEN /\ aresults' = Put(aresults, name, FileInfo(name, acol))
                /\ apos' = apos + 1
                /\ UNCHANGED <<aphase, araised>>
           ELSE IF ExceptException(exc)
           THEN /\ aresults' = Put(aresults, name, ErrorInfo(exc))
                /\ apos' = apos + 1
                /\ UNCHANGED <<aphase, araised>>
           ELSE /\ araised' = TRUE
                /\ aphase' = "raised"
                /\ UNCHANGED <<aresults, apos>>
    /\ UNCHANGED <<adir, acol, acsv, cvars, mvars>>

\* return results
AReturn ==
    /\ aphase = "loop"
    /\ apos > Len(acsv)
    /\ aphase' = "returned"
    /\ UNCHANGED <<adir, acol, acsv, apos, aresults, araised, cvars, mvars>>

ANext == AListDir \/ AAnalyzeFile \/ AReturn

SpecAnalyze == AInit /\ [][ANext]_vars

CsvNames == {i \in 1..Len(adir) : adir[i] # "not_csv"}
Profiled == {i \in DOMAIN aresults : aresults[i].kind = "profile"}

\* C8: analyze_csv_files never raises because of a file's contents; its
\* result has exactly one entry per .csv file, keyed by the file name: the
\* profile of a readable file, {'error': message} for an unreadable one.
C8_ScanNeverRaises ==
    /\ ~araised /\ aphase # "raised"
    /\ aphase = "returned" =>
        /\ DOMAIN aresults = CsvNames
        /\ \A i \in CsvNames :
            IF adir[i] = "ok"
            THEN /\ aresults[i].kind = "profile"
                 /\ aresults[i].file_name = i
                 /\ Len(aresults[i].columns) = aresults[i].total_columns
            ELSE aresults[i] = ErrorInfo(ReadCsvError(adir[i]))

\* a scan has returned in which an unreadable file came before a readable one
C8_Witness ==
    /\ aphase = "returned"
    /\ \E i, j \in CsvNames :
        /\ i < j
        /\ adir[i] = "undecodable" /\ aresults[i].kind = "error"
        /\ adir[j] = "ok" /\ aresults[j].kind = "profile"

\* The texts of the column's non-null cells, and of the first k of them.
NonNullTexts(rc) == {rc[i].tok : i \in {j \in 1..Len(rc) : ~IsNA(rc[j].tok)}}

AllIntegers(ts) == ts # {} /\ \A t \in ts : IsIntText(t)
AllIsoDates(ts) == ts # {} /\ \A t \in ts : IsIsoDate(t)
\* values of more than one sort, or values that are neither numbers nor dates
MixedOrUnparseable(ts) ==
    ts # {} /\ ~(\A t \in ts : IsFloatText(t)) /\ ~(\A t \in ts : IsIsoDate(t))

\* The ordered checks of the claim over all the non-null values of the
\* column rc, the first match deciding: a numeric storage type, then every
\* value a timestamp, then every value a number, then string.
OrderedInference(rc) ==
    LET ts == NonNullTexts(rc)
    IN  IF RunFrame(rc).dtype \in {"int64", "float64"} THEN "numeric"
        ELSE IF \A t \in ts : IsIsoDate(t) THEN "datetime"
        ELSE IF \A t \in ts : IsFloatText(t) THEN "numeric"
        ELSE "string"

SuggestedOf(i) == aresults[i].columns[1].suggested_type

\* C9: a column whose non-null values are all integer-looking text is
\* numeric, one whose non-null values are all ISO-date-looking text is
\* datetime, every column with mixed or unparseable values is string, and
\* the suggested type of a column with a non-null value is the first match
\* of the checks in the order numeric storage type, datetime parse, numeric
\* parse, string.
C9_InferenceAsStated ==
    \A i \in Profiled :
        /\ AllIntegers(NonNullTexts(acol)) => SuggestedOf(i) = "numeric"
        /\ AllIsoDates(NonNullTexts(acol)) => SuggestedOf(i) = "datetime"
        /\ MixedOrUnparseable(NonNullTexts(acol)) => SuggestedOf(i) = "string"
        /\ NonNullTexts(acol) # {} => SuggestedOf(i) = OrderedInference(acol)

\* C10: computing the suggested type never fails, and the suggested type of
\* every column of every readable file is one of string, numeric, datetime,
\* whatever storage type the reader gave the column.
C10_ThreeCategories ==
    /\ ~araised
    /\ \A i \in Profiled : SuggestedOf(i) \in {"string", "numeric", "datetime"}

(***************************************************************************)
(* The loader (enhanced_olist_loader.py).                                  *)
(***************************************************************************)
\* The views of create_summary_views and the columns their SELECTs name.
ViewNames == {"v_order_summary", "v_product_performance", "v_seller_performance"}

ViewRefs(v) ==
    CASE v = "v_order_summary" ->
            { <<"orders", "order_id">>, <<"orders", "customer_id">>,
              <<"orders", "order_status">>,
              <<"orders", "order_purchase_timestamp">>,
              <<"orders", "order_delivered_customer_date">>,
              <<"customers", "customer_id">>,
              <<"customers", "customer_unique_id">>,
              <<"customers", "customer_city">>,
              <<"customers", "customer_state">>,
              <<"order_items", "order_id">>, <<"order_items", "product_id">>,
              <<"order_items", "price">>, <<"order_items", "freight_value">> }
      [] v = "v_product_performance" ->
            { <<"products", "product_id">>,
              <<"products", "product_category_name">>,
              <<"order_items", "product_id">>, <<"order_items", "order_id">>,
              <<"order_items", "price">>,
              <<"order_reviews", "order_id">>,
              <<"order_reviews", "review_score">>,
              <<"product_category_translation", "product_category_name">>,
              <<"product_category_translation",
                "product_category_name_english">> }
      [] v = "v_seller_performance" ->
            { <<"sellers", "seller_id">>, <<"sellers", "seller_city">>,
              <<"sellers", "seller_state">>,
              <<"order_items", "seller_id">>, <<"order_items", "order_id">>,
              <<"order_items", "product_id">>, <<"order_items", "price">>,
              <<"order_items", "freight_value">>,
              <<"order_reviews", "order_id">>,
              <<"order_reviews", "review_score">> }

ViewTables(v) == {r[1] : r \in ViewRefs(v)}

\* The columns the COMMENT ON COLUMN statements name (lines 376-386); every
\* table of the registry gets a COMMENT ON TABLE (lines 348-373).
CommentColumnRefs ==
    { <<"customers", "customer_unique_id">>, <<"orders", "order_status">>,
      <<"order_items", "order_item_id">>,
      <<"order_payments", "payment_sequential">> }

\* quality_checks, in the order of the dict and of each list: the category,
\* the check and the columns its query reads (a table alone as <<t, "*">>).
QualityChecks ==
    << [cat |-> "Key Metrics", name |-> "Total Orders",
        refs |-> {<<"orders", "*">>}],
       [cat |-> "Key Metrics", name |-> "Orders with Reviews",
        refs |-> {<<"orders", "order_id">>, <<"order_reviews", "order_id">>}],
       [cat |-> "Key Metrics", name |-> "Unique Customers",
        refs |-> {<<"customers", "customer_unique_id">>}],
       [cat |-> "Key Metrics", name |-> "Repeat Customers",
        refs |-> {<<"customers", "customer_unique_id">>}],
       [cat |-> "Key Metrics", name |-> "Active Sellers",
        refs |-> {<<"order_items", "seller_id">>}],
       [cat |-> "Key Metrics", name |-> "Product Categories",
        refs |-> {<<"products", "product_category_name">>}],
       [cat |-> "Time Range", name |-> "First Order Date",
        refs |-> {<<"orders", "order_purchase_timestamp">>}],
       [cat |-> "Time Range", name |-> "Last Order Date",
        refs |-> {<<"orders", "order_purchase_timestamp">>}],
       [cat |-> "Time Range", name |-> "Data Coverage (months)",
        refs |-> {<<"orders", "order_purchase_timestamp">>}],
       [cat |-> "Financial Metrics", name |-> "Total Revenue (BRL)",
        refs |-> {<<"order_payments", "payment_value">>}],
       [cat |-> "Financial Metrics", name |-> "Average Order Value (BRL)",
        refs |-> {<<"order_payments", "order_id">>,
                  <<"order_payments", "payment_value">>}],
       [cat |-> "Financial Metrics", name |-> "Average Product Price (BRL)",
        refs |-> {<<"order_items", "price">>}],
       [cat |-> "Financial Metrics", name |-> "Average Freight Cost (BRL)",
        refs |-> {<<"order_items", "freight_value">>}],
       [cat |-> "Customer Satisfaction", name |-> "Average Review Score",
        refs |-> {<<"order_reviews", "review_score">>}],
       [cat |-> "Customer Satisfaction", name |-> "5-Star Reviews",
        refs |-> {<<"order_reviews", "review_score">>}],
       [cat |-> "Customer Satisfaction", name |-> "1-Star Reviews",
        refs |-> {<<"order_reviews", "review_score">>}],
       [cat |-> "Geographic Distribution", name |-> "States with Orders",
        refs |-> {<<"customers", "customer_state">>}],
       [cat |-> "Geographic Distribution", name |-> "Cities with Orders",
        refs |-> {<<"customers", "customer_city">>}],
       [cat |-> "Geographic Distribution", name |-> "Top State by Orders",
        refs |-> {<<"orders", "customer_id">>, <<"customers", "customer_id">>,
                  <<"customers", "customer_state">>}],
       [cat |-> "Order Status", name |-> "Delivered Orders",
        refs |-> {<<"orders", "order_status">>}],
       [cat |-> "Order Status", name |-> "Cancelled Orders",
        refs |-> {<<"orders", "order_status">>}] >>

(***************************************************************************)
(* The store: the PostgreSQL database behind self.engine.                  *)
(*   tables    table name -> [exists, rows, cols]                          *)
(*   indexes   the indexes, each [table, col] standing for the index named *)
(*             idx_<table>_<col> on that table                             *)
(*   views     the views that exist                                        *)
(*   comments  the tables that carry a comment                             *)
(***************************************************************************)
NoTable == [exists |-> FALSE, rows |-> 0, cols |-> {}]

EmptyStore ==
    [ tables   |-> [t \in TableNames |-> NoTable],
      indexes  |-> {},
      views    |-> {},
      comments |-> {} ]

\* A statement that reads column ref[2] of table ref[1] succeeds only if
\* both exist.
RefExists(st, ref) ==
    /\ ref[1] \in TableNames
    /\ st.tables[ref[1]].exists
    /\ ref[2] = "*" \/ ref[2] \in st.tables[ref[1]].cols

\* DROP TABLE fails while a view selects from the table.
DropBlocked(st, t) ==
    st.tables[t].exists /\ \E v \in st.views : t \in ViewTables(v)

(***************************************************************************)
(* The environment of a run: the input files and the faults of the store.  *)
(* It is the same for every run of a behaviour.                            *)
(*   dataDir   whether data/raw exists at all                              *)
(*   rows      the number of data rows of every file                       *)
(*   cond[i]   the condition of the file of table_configs[i]               *)
(***************************************************************************)
MaxPipelineRuns == 2
MaxFileRows == 1
MaxTroubled == 1

Conditions ==
    { "ok",
      "missing",              \* file_path.exists() is false
      "unreadable",           \* read_csv raises (malformed, undecodable)
      "absent_date_column",   \* a column of date_columns is not in the file
      "absent_column",        \* a declared column that is no date is not in the file
      "nonfinite_int",        \* a column declared int holds a non-finite number
      "write_error",          \* the store fails during to_sql
      "index_error",          \* the store fails during CREATE INDEX
      "verify_error",         \* the store fails during SELECT COUNT(*)
      "count_mismatch" }      \* the store holds fewer rows than the frame when counted

\* The conditions the file of a registry entry can be in.
ConditionsOf(cfg) ==
    { c \in Conditions :
        /\ c = "absent_date_column" => cfg.date_columns # {}
        /\ c = "nonfinite_int" => HasIntColumn(cfg)
        /\ c = "index_error" => cfg.indexes # <<>> }

Environments ==
    { [dataDir |-> d, rows |-> n,
       cond |-> [i \in 1..NumTables |-> IF i \in DOMAIN f THEN f[i] ELSE "ok"]] :
        d \in BOOLEAN, n \in 1..MaxFileRows,
        f \in UNION { [S -> Conditions \ {"ok"}] :
                        S \in {T \in SUBSET (1..NumTables) :
                                  Cardinality(T) <= MaxTroubled} } }

\* Without the data directory every file is missing, whatever cond says:
\* one such environment for each number of rows is enough.
ValidEnvironment(e) ==
    /\ \A i \in 1..NumTables : e.cond[i] \in ConditionsOf(table_configs[i])
    /\ ~e.dataDir => \A i \in 1..NumTables : e.cond[i] = "ok"

CondOf(e, i) == IF e.dataDir THEN e.cond[i] ELSE "missing"

\* The declared column an "absent_column" file lacks.
AbsentColumn(cfg) ==
    IF cfg.indexes # <<>> THEN cfg.indexes[1] ELSE cfg.dtypes[1][1]

\* df.columns
DfColumns(e, i) ==
    LET cfg == table_configs[i]
    IN  IF CondOf(e, i) = "absent_column"
        THEN DeclaredColumns(cfg) \ {AbsentColumn(cfg)}
        ELSE DeclaredColumns(cfg)

(***************************************************************************)
(* One iteration of the loop of load_csv_files (lines 244-324).            *)
(***************************************************************************)
StepOrderWriteBeforeCoerce ==
    <<"file_check", "read", "write", "coerce", "null_profile", "index", "verify">>

\* The statements of one iteration in the order of the code: lines 247,
\* 258, 269, 282, 290, 301, 313.
StepOrder ==
    <<"file_check", "read", "coerce", "null_profile", "write", "index", "verify">>

FailStepNoFileCheck(e, st, i) ==
    LET cfg == table_configs[i]
        c == CondOf(e, i)
    IN  CASE c \in {"missing", "unreadable", "absent_date_column"} -> "read"
          [] c = "nonfinite_int" /\ HasIntColumn(cfg) -> "coerce"
          [] c = "write_error" \/ DropBlocked(st, cfg.table_name) -> "write"
          [] c = "index_error" /\ cfg.indexes # <<>> -> "index"
          [] c = "verify_error" -> "verify"
          [] OTHER -> "none"

FailStepOnMismatch(e, st, i) ==
    LET cfg == table_configs[i]
        c == CondOf(e, i)
    IN  CASE c = "missing" -> "file_check"
          [] c \in {"unreadable", "absent_date_column"} -> "read"
          [] c = "nonfinite_int" /\ HasIntColumn(cfg) -> "coerce"
          [] c = "write_error" \/ DropBlocked(st, cfg.table_name) -> "write"
          [] c = "index_error" /\ cfg.indexes # <<>> -> "index"
          [] c \in {"verify_error", "count_mismatch"} -> "verify"
          [] OTHER -> "none"

FailStepNoColumnGuard(e, st, i) ==
    LET cfg == table_configs[i]
        c == CondOf(e, i)
    IN  CASE c = "missing" -> "file_check"
          [] c \in {"unreadable", "absent_date_column"} -> "read"
          [] c = "absent_column" -> "coerce"
          [] c = "nonfinite_int" /\ HasIntColumn(cfg) -> "coerce"
          [] c = "write_error" \/ DropBlocked(st, cfg.table_name) -> "write"
          [] c = "index_error" /\ cfg.indexes # <<>> -> "index"
          [] c = "verify_error" -> "verify"
          [] OTHER -> "none"

\* The step at which the iteration stops: the file check that finds no file
\* (line 247), or the first statement of the try block that raises.
FailStep(e, st, i) ==
    LET cfg == table_configs[i]
        c == CondOf(e, i)
    IN  CASE c = "missing" -> "file_check"
          [] c \in {"unreadable", "absent_date_column"} -> "read"
          [] c = "nonfinite_int" /\ HasIntColumn(cfg) -> "coerce"
          [] c = "write_error" \/ DropBlocked(st, cfg.table_name) -> "write"
          [] c = "index_error" /\ cfg.indexes # <<>> -> "index"
          [] c = "verify_error" -> "verify"
          [] OTHER -> "none"

StepIndex(step) == CHOOSE k \in 1..Len(StepOrder) : StepOrder[k] = step

\* The steps the iteration performs, the failing one included.
StepsDone(e, st, i) ==
    LET f == FailStep(e, st, i)
    IN  IF f = "none" THEN StepOrder ELSE SubSeq(StepOrder, 1, StepIndex(f))

Reached(e, st, i, step) ==
    \E k \in 1..Len(StepsDone(e, st, i)) : StepsDone(e, st, i)[k] = step

Completed(e, st, i, step) ==
    Reached(e, st, i, step) /\ FailStep(e, st, i) # step

\* df.to_sql(name, if_exists='replace'): the table is dropped, with its
\* indexes and its comment, and created again from the frame.
ToSqlReplace(st, cfg, rows, cols) ==
    [st EXCEPT !.tables[cfg.table_name] =
                    [exists |-> TRUE, rows |-> rows, cols |-> cols],
               !.indexes = {x \in @ : x.table # cfg.table_name},
               !.comments = @ \ {cfg.table_name}]

\* CREATE INDEX IF NOT EXISTS idx_<table>_<col> for every index column that
\* is in df.columns, committed together.
CreateIndexes(st, cfg, cols) ==
    [st EXCEPT !.indexes = @ \cup
        { [table |-> cfg.table_name, col |-> cfg.indexes[k]] :
            k \in {j \in 1..Len(cfg.indexes) : cfg.indexes[j] \in cols} }]

\* The rows the table holds when it is counted: those of the frame, or
\* fewer.
StoredRows(e, i) ==
    IF CondOf(e, i) = "count_mismatch" THEN e.rows - 1 ELSE e.rows

\* The store after the iteration: a failure before or in to_sql leaves it
\* as it was, a later one leaves the new table.
StoreAfter(e, st, i) ==
    LET cfg == table_configs[i]
        written == ToSqlReplace(st, cfg, StoredRows(e, i), DfColumns(e, i))
    IN  IF ~Completed(e, st, i, "write") THEN st
        ELSE IF ~Completed(e, st, i, "index") THEN written
        ELSE CreateIndexes(written, cfg, DfColumns(e, i))

\* count = result.scalar() of SELECT COUNT(*) (lines 313-318), -1 when the
\* iteration does not get to the query or the query raises.
ReadBackCount(e, st, i) ==
    IF Reached(e, st, i, "verify") /\ CondOf(e, i) # "verify_error"
    THEN StoreAfter(e, st, i).tables[table_configs[i].table_name].rows
    ELSE -1

LoadResultAlwaysTrue(loads) == TRUE

\* return len(successful_loads) > 0
LoadResult(loads) == Len(loads) > 0

(***************************************************************************)
(* Spec: main() (lines 611-658), run MaxPipelineRuns times in succession   *)
(* against the same files and the same store.                              *)
(***************************************************************************)
\* What a finished run leaves: its exit status, its two lists and the store.
Summary(status, st) ==
    [ status    |-> status,
      succeeded |-> {successful_loads[k] : k \in 1..Len(successful_loads)},
      failed    |-> {failed_loads[k] : k \in 1..Len(failed_loads)},
      loaded    |-> \E k \in 1..Len(calls) : calls[k] = "load_csv_files",
      store     |-> st ]

\* sys.exit(1), or main returning
Exit(status, st) ==
    /\ pc' = "exit"
    /\ exitStatus' = status
    /\ history' = Append(history, Summary(status, st))

Goto(label) ==
    /\ pc' = label
    /\ UNCHANGED <<exitStatus, history>>

\* A returned True or False, as recorded in rets.
PyBool(b) == IF b THEN "True" ELSE "False"

MainProceedsAlways(ok) == TRUE

\* main's test of what a method returned: "if not loader.connect_database():
\* sys.exit(1)" (lines 621, 626) and "if loader.load_csv_files():" (line 631)
MainProceeds(ok) == ok

MInit ==
    /\ CIdle /\ AIdle
    /\ pc = "connect" /\ run = 1
    /\ env \in {e \in Environments : ValidEnvironment(e)}
    /\ engine = FALSE /\ tpos = 0
    /\ successful_loads = <<>> /\ failed_loads = <<>> /\ steps = <<>>
    /\ store = EmptyStore
    /\ exitStatus = "none" /\ history = <<>>
    /\ calls = <<>> /\ rets = <<>> /\ counts = <<>> /\ qlog = <<>>

\* loader.connect_database() and main's test of its result (lines 621-623).
\* self.engine is assigned by create_engine (line 193) before the test
\* connection (lines 203-207): when that one fails the method returns False
\* with the engine created; when create_engine itself raises there is none.
ConnectDatabase ==
    /\ pc = "connect"
    /\ calls' = Append(calls, "connect_database")
    /\ \E created \in BOOLEAN, ok \in BOOLEAN :
        /\ ok => created
        /\ engine' = created
        /\ rets' = Append(rets, PyBool(ok))
        /\ IF MainProceeds(ok) THEN Goto("schemas") ELSE Exit("failure", store)
    /\ UNCHANGED <<run, env, tpos, successful_loads, failed_loads, steps,
                   store, counts, qlog>>

\* loader.create_schemas() and main's test of its result (lines 626-628)
CreateSchemas ==
    /\ pc = "schemas"
    /\ calls' = Append(calls, "create_schemas")
    /\ \E ok \in BOOLEAN :
        /\ rets' = Append(rets, PyBool(ok))
        /\ IF MainProceeds(ok) THEN Goto("load") ELSE Exit("failure", store)
    /\ UNCHANGED <<run, env, engine, tpos, successful_loads, failed_loads,
                   steps, store, counts, qlog>>

\* The call of load_csv_files (line 631): the two lists start empty.
LoadCsvFiles ==
    /\ pc = "load"
    /\ calls' = Append(calls, "load_csv_files")
    /\ successful_loads' = <<>> /\ failed_loads' = <<>>
    /\ steps' = <<>> /\ tpos' = 0
    /\ Goto("loop")
    /\ counts' = <<>>
    /\ UNCHANGED <<run, env, engine, store, rets, qlog>>

LoopDoneOnFailure(pos, failed) == pos = NumTables \/ failed # <<>>

\* "for csv_file, config in self.table_configs.items()" (line 244) ends
\* when the registry is exhausted, whatever has failed.
LoopDone(pos, failed) == pos = NumTables

\* One iteration of the loop over table_configs (lines 244-324).
LoadTable ==
    /\ pc = "loop" /\ ~LoopDone(tpos, failed_loads)
    /\ LET i == tpos + 1
           cfg == table_configs[i]
       IN  /\ steps' = Append(steps, StepsDone(env, store, i))
           /\ store' = StoreAfter(env, store, i)
           /\ IF FailStep(env, store, i) = "none"
              THEN /\ successful_loads' = Append(successful_loads, cfg.table_name)
                   /\ UNCHANGED failed_loads
              ELSE /\ failed_loads' = Append(failed_loads, cfg.file)
                   /\ UNCHANGED successful_loads
           /\ counts' = Append(counts, ReadBackCount(env, store, i))
           /\ tpos' = i
    /\ Goto("loop")
    /\ UNCHANGED <<run, env, engine, calls, rets, qlog>>

\* The end of load_csv_files and main's test of its result (lines 326-340,
\* 631, 656-658).
LoadReturn ==
    /\ pc = "loop" /\ LoopDone(tpos, failed_loads)
    /\ rets' = Append(rets, PyBool(LoadResult(successful_loads)))
    /\ IF MainProceeds(LoadResult(successful_loads))
       THEN Goto("doc")
       ELSE Exit("failure", store)
    /\ UNCHANGED <<run, env, engine, tpos, successful_loads, failed_loads,
                   steps, store, calls, counts, qlog>>

\* create_foreign_key_documentation (lines 342-397): the COMMENT statements
\* run in one transaction; an error is logged and nothing is committed.
CreateForeignKeyDocumentation ==
    /\ pc = "doc"
    /\ calls' = Append(calls, "create_foreign_key_documentation")
    /\ store' =
         IF /\ \A t \in TableNames : store.tables[t].exists
            /\ \A r \in CommentColumnRefs : RefExists(store, r)
         THEN [store EXCEPT !.comments = TableNames]
         ELSE store
    /\ rets' = Append(rets, "None")
    /\ Goto("views")
    /\ UNCHANGED <<run, env, engine, tpos, successful_loads, failed_loads,
                   steps, counts, qlog>>

\* create_summary_views (lines 536-609): the three CREATE OR REPLACE VIEW
\* statements run in one transaction; an error is logged and nothing is
\* committed.
CreateSummaryViews ==
    /\ pc = "views"
    /\ calls' = Append(calls, "create_summary_views")
    /\ store' =
         IF \A v \in ViewNames : \A r \in ViewRefs(v) : RefExists(store, r)
         THEN [store EXCEPT !.views = @ \cup ViewNames]
         ELSE store
    /\ rets' = Append(rets, "None")
    /\ Goto("quality")
    /\ UNCHANGED <<run, env, engine, tpos, successful_loads, failed_loads,
                   steps, counts, qlog>>

NumChecks == Len(QualityChecks)

\* The checks that divide by the row count of a table (lines 477-482,
\* 505-510): "... / (SELECT COUNT(*) FROM raw_data.<table>)".
DivisorTables(chk) ==
    IF chk.name \in {"5-Star Reviews", "1-Star Reviews"} THEN {"order_reviews"}
    ELSE IF chk.name \in {"Delivered Orders", "Cancelled Orders"} THEN {"orders"}
    ELSE {}

\* What conn.execute raises for a check, "none" if the query returns: a
\* table or column it reads does not exist, it divides by a row count of
\* zero, or the store fails under it (fault).
CheckError(st, chk, fault) ==
    IF ~(\A r \in chk.refs : RefExists(st, r)) THEN "ProgrammingError"
    ELSE IF \E t \in DivisorTables(chk) : st.tables[t].rows = 0 THEN "DataError"
    ELSE IF fault THEN "OperationalError"
    ELSE "none"

CheckExceptOnlyProgrammingError(exc) == exc = "ProgrammingError"

\* "except Exception as e" (line 533): every error of the store is caught.
CheckExceptException(exc) ==
    exc \in {"ProgrammingError", "DataError", "OperationalError"}

ValueLine(chk) == [cat |-> chk.cat, name |-> chk.name, outcome |-> "value"]
ErrorLine(chk) == [cat |-> chk.cat, name |-> chk.name, outcome |-> "error"]

\* The line a check logs: its value, or the caught error (lines 520-534).
CheckLine(st, chk) ==
    IF CheckError(st, chk, FALSE) = "none" THEN ValueLine(chk) ELSE ErrorLine(chk)

\* verify_data_quality (lines 399-534), then main returns (lines 642-655).
VerifyDataQuality ==
    /\ pc = "quality"
    /\ calls' = Append(calls, "verify_data_quality")
    /\ qlog' = [k \in 1..Len(QualityChecks) |-> CheckLine(store, QualityChecks[k])]
    /\ rets' = Append(rets, "None")
    /\ Exit("success", store)
    /\ UNCHANGED <<run, env, engine, tpos, successful_loads, failed_loads,
                   steps, store, counts>>

\* The pipeline is started again: a new process and a new loader, the same
\* files and the same store.
StartRun ==
    /\ pc = "exit" /\ run < MaxPipelineRuns
    /\ run' = run + 1
    /\ pc' = "connect" /\ exitStatus' = "none"
    /\ engine' = FALSE /\ tpos' = 0
    /\ successful_loads' = <<>> /\ failed_loads' = <<>> /\ steps' = <<>>
    /\ calls' = <<>> /\ rets' = <<>> /\ counts' = <<>> /\ qlog' = <<>>
    /\ UNCHANGED <<env, store, history>>

Next ==
    \/ ConnectDatabase
    \/ CreateSchemas
    \/ LoadCsvFiles
    \/ LoadTable
    \/ LoadReturn
    \/ CreateForeignKeyDocumentation
    \/ CreateSummaryViews
    \/ VerifyDataQuality
    \/ StartRun

MNext == Next /\ UNCHANGED <<cvars, avars>>

Spec == MInit /\ [][MNext]_vars

(***************************************************************************)
(* Properties of Spec.                                                     *)
(***************************************************************************)
Called(name) == \E k \in 1..Len(calls) : calls[k] = name
InList(list, x) == \E k \in 1..Len(list) : list[k] = x
LoopOver == pc \in {"doc", "views", "quality"} \/ (pc = "exit" /\ Called("load_csv_files"))

\* C1: for every registry entry whose file does not exist the file name is
\* in the failed list, the table name is not in the succeeded list, the file
\* check is the only step performed for it, and the loop goes on to the next
\* entry: when load_csv_files returns, every entry has been processed.
C1_MissingFile ==
    /\ \A i \in 1..Len(steps) :
          CondOf(env, i) = "missing" =>
              /\ steps[i] = <<"file_check">>
              /\ InList(failed_loads, table_configs[i].file)
              /\ ~InList(successful_loads, table_configs[i].table_name)
    /\ pc = "loop" => Len(steps) = tpos
    /\ LoopOver => Len(steps) = NumTables

\* A run has ended in which a file was missing and the entry after it was
\* loaded.
C1_Witness ==
    /\ pc = "exit" /\ exitStatus = "success"
    /\ \E i \in 1..(NumTables - 1) :
          /\ CondOf(env, i) = "missing"
          /\ steps[i] = <<"file_check">>
          /\ InList(failed_loads, table_configs[i].file)
          /\ InList(successful_loads, table_configs[i + 1].table_name)

\* C2 as stated: the process exits with failure only if connect_database or
\* create_schemas failed; once both succeeded it exits with success whatever
\* the tables' load outcomes.
C2_FailureOnlyUpfront ==
    pc = "exit" =>
        /\ exitStatus = "failure" => ~Called("load_csv_files")
        /\ Called("load_csv_files") => exitStatus = "success"

\* C2 amended: the process exits with failure exactly when connect_database
\* failed, create_schemas failed, or load_csv_files loaded no table at all;
\* when both succeeded and at least one table loaded it exits with success,
\* however many other tables failed.
C2_FailureUpfrontOrNothingLoaded ==
    pc = "exit" =>
        /\ exitStatus \in {"success", "failure"}
        /\ exitStatus = "failure" <=>
              \/ ~Called("load_csv_files")
              \/ Len(successful_loads) = 0
        /\ ~Called("load_csv_files") =>
              \/ calls = <<"connect_database">>
              \/ calls = <<"connect_database", "create_schemas">>

\* A run in which connecting and the schemas succeeded and every table
\* failed has exited with failure.
C2_Witness ==
    /\ pc = "exit" /\ exitStatus = "failure"
    /\ Called("load_csv_files")
    /\ Len(failed_loads) = NumTables /\ Len(successful_loads) = 0

RowCounts(st) == [t \in TableNames |-> st.tables[t].rows]

\* C7: after two runs in succession that both loaded, against the same
\* files and the same store, the second run leaves the same set of succeeded
\* tables, the same row count of every table and the same set of indexes as
\* the first, also when the first run created the summary views.
C7_SecondRunSameResult ==
    (Len(history) >= 2 /\ history[1].loaded /\ history[2].loaded) =>
        /\ history[2].succeeded = history[1].succeeded
        /\ RowCounts(history[2].store) = RowCounts(history[1].store)
        /\ history[2].store.indexes = history[1].store.indexes

\* The store as the current run found it.
RunStartStore == IF run = 1 THEN EmptyStore ELSE history[run - 1].store

\* C11: no table is processed unless connect_database and then
\* create_schemas have both returned True; when either returns False the
\* process exits with failure at once: no table has been processed, no
\* documentation, view or quality step has run and the store is untouched.
C11_LoadOnlyAfterSetup ==
    /\ (Called("load_csv_files") \/ steps # <<>> \/ tpos > 0) =>
          /\ Len(calls) >= 3
          /\ calls[1] = "connect_database" /\ rets[1] = "True"
          /\ calls[2] = "create_schemas" /\ rets[2] = "True"
          /\ calls[3] = "load_csv_files"
    /\ \A k \in 1..Len(rets) :
          (k <= 2 /\ rets[k] = "False") =>
              /\ pc = "exit" /\ exitStatus = "failure"
              /\ Len(calls) = k
              /\ steps = <<>> /\ tpos = 0 /\ qlog = <<>>
              /\ store = RunStartStore

\* A second run whose create_schemas failed has exited, the tables of the
\* first run still in the store.
C11_Witness ==
    /\ pc = "exit" /\ exitStatus = "failure" /\ run = 2
    /\ calls = <<"connect_database", "create_schemas">>
    /\ rets = <<"True", "False">>
    /\ steps = <<>>
    /\ \E t \in TableNames : store.tables[t].exists

(***************************************************************************)
(* SpecQuality: verify_data_quality (lines 399-534) check by check, over   *)
(* stores in which tables are missing or empty and with faults of the      *)
(* store under some of the checks.                                         *)
(*   env.faults  the checks under which the store fails                    *)
(*   env.store   the store as verify_data_quality finds it                 *)
(***************************************************************************)
MaxFaults == 2

\* A table as the loader leaves it, with all its declared columns.
LoadedTable(cfg, rows) ==
    [exists |-> TRUE, rows |-> rows, cols |-> DeclaredColumns(cfg)]

ConfigOf(t) == table_configs[CHOOSE i \in 1..NumTables : table_configs[i].table_name = t]

\* The store with the tables of present, each of the given number of rows.
StoreWith(present, rows) ==
    [EmptyStore EXCEPT !.tables =
        [t \in TableNames |->
            IF t \in present THEN LoadedTable(ConfigOf(t), rows) ELSE NoTable]]

QualityStores ==
    {StoreWith(TableNames, 1), StoreWith(TableNames, 0), StoreWith({}, 0)}
        \cup {StoreWith(TableNames \ {t}, 1) : t \in TableNames}

\* The sets of at most n checks.
RECURSIVE FaultSets(_)
FaultSets(n) ==
    IF n = 0 THEN {{}}
    ELSE LET smaller == FaultSets(n - 1)
         IN  smaller \cup {F \cup {k} : F \in smaller, k \in 1..NumChecks}

QualityEnvironments ==
    { [faults |-> F, store |-> st] :
        F \in FaultSets(MaxFaults), st \in QualityStores }

QInit ==
    /\ CIdle /\ AIdle
    /\ pc = "check"
    /\ env \in QualityEnvironments
    /\ store = env.store
    /\ qlog = <<>>
    /\ run = 0 /\ engine = TRUE /\ tpos = 0
    /\ successful_loads = <<>> /\ failed_loads = <<>> /\ steps = <<>>
    /\ exitStatus = "none" /\ history = <<>>
    /\ calls = <<"verify_data_quality">> /\ rets = <<>> /\ counts = <<>>

\* One check of verify_data_quality: the query runs on a connection of its
\* own inside try/except (lines 519-534).
VerifyCheck ==
    /\ pc = "check" /\ Len(qlog) < NumChecks
    /\ LET k == Len(qlog) + 1
           chk == QualityChecks[k]
           exc == CheckError(store, chk, k \in env.faults)
       IN  IF exc = "none"
           THEN qlog' = Append(qlog, ValueLine(chk)) /\ UNCHANGED pc
           ELSE IF CheckExceptException(exc)
           THEN qlog' = Append(qlog, ErrorLine(chk)) /\ UNCHANGED pc
           ELSE pc' = "raised" /\ UNCHANGED qlog
    /\ UNCHANGED <<cvars, avars, run, env, engine, tpos, successful_loads,
                   failed_loads, steps, store, exitStatus, history, calls, rets,
                   counts>>

\* verify_data_quality returns (None) after the last category.
VerifyReturn ==
    /\ pc = "check" /\ Len(qlog) = NumChecks
    /\ pc' = "returned"
    /\ rets' = Append(rets, "None")
    /\ UNCHANGED <<cvars, avars, run, env, engine, tpos, successful_loads,
                   failed_loads, steps, store, exitStatus, history, calls, counts,
                   qlog>>

QNext == VerifyCheck \/ VerifyReturn

SpecQuality == QInit /\ [][QNext]_vars

\* C12: verify_data_quality attempts every check exactly once, in the order
\* of the categories and of the checks in them, whatever checks fail: a
\* failing check is logged as an error and the next check runs, no exception
\* leaves verify_data_quality, and the store stays as it was found.
C12_EveryCheckOnceInOrder ==
    /\ pc \in {"check", "returned"}
    /\ Len(qlog) <= NumChecks
    /\ \A k \in 1..Len(qlog) :
          /\ qlog[k].name = QualityChecks[k].name
          /\ qlog[k].cat = QualityChecks[k].cat
          /\ qlog[k].outcome = "error" <=>
                CheckError(env.store, QualityChecks[k], k \in env.faults) # "none"
    /\ pc = "returned" => Len(qlog) = NumChecks
    /\ store = env.store

\* verify_data_quality has returned after its first check failed on a
\* missing table, a later one on a fault of the store, and the last gave a
\* value.
C12_Witness ==
    /\ pc = "returned" /\ Len(qlog) = NumChecks
    /\ ~env.store.tables["orders"].exists
    /\ qlog[1].outcome = "error"
    /\ \E k \in env.faults : k > 1 /\ qlog[k].outcome = "error"
    /\ qlog[3].outcome = "value"

AbsentConditions == {"absent_date_column", "absent_column"}

\* C13 as stated: when a declared column is absent from the file, temporal
\* or not, the table's load fails: the file name is in the failed list, the
\* table is not written and not reported as succeeded.
C13_AbsentColumnFails ==
    \A i \in 1..Len(steps) :
        CondOf(env, i) \in AbsentConditions =>
            /\ InList(failed_loads, table_configs[i].file)
            /\ ~InList(successful_loads, table_configs[i].table_name)
            /\ ~InList(steps[i], "index")

\* C13 amended: when a column of date_columns is absent the load fails at
\* the read step and the table is not written; when another declared column
\* is absent the coercion and the index creation skip it, and the table is
\* written without that column and reported as succeeded.
C13_AbsentDateColumnFails ==
    \A i \in 1..Len(steps) :
        LET cfg == table_configs[i]
        IN  /\ CondOf(env, i) = "absent_date_column" =>
                /\ steps[i] = <<"file_check", "read">>
                /\ InList(failed_loads, cfg.file)
                /\ ~InList(successful_loads, cfg.table_name)
                /\ store.tables[cfg.table_name] = RunStartStore.tables[cfg.table_name]
            /\ CondOf(env, i) = "absent_column" =>
                /\ steps[i] = StepOrder
                /\ InList(successful_loads, cfg.table_name)
                /\ ~InList(failed_loads, cfg.file)
                /\ store.tables[cfg.table_name].exists
                /\ store.tables[cfg.table_name].cols =
                      DeclaredColumns(cfg) \ {AbsentColumn(cfg)}
                /\ \A x \in store.indexes :
                      x.table = cfg.table_name => x.col # AbsentColumn(cfg)

\* A run has ended with success in which a file lacked a declared column
\* that is no date and its table was written without it.
C13_Witness ==
    /\ pc = "exit" /\ exitStatus = "success"
    /\ \E i \in 1..NumTables :
          /\ CondOf(env, i) = "absent_column"
          /\ InList(successful_loads, table_configs[i].table_name)
          /\ AbsentColumn(table_configs[i])
                \notin store.tables[table_configs[i].table_name].cols

\* C14: whatever the cells of a column that was read hold, the coercion
\* completes without raising and leaves the number of rows unchanged: no
\* cell value alone makes the table's load fail.
C14_CoercionNeverRaises ==
    /\ cphase # "failed"
    /\ CoerceDone => Len(cframe.vals) = Len(csrc)

\* C15: once a table has been written and indexed and the read-back query
\* has returned a count, the table is in the succeeded list and its file is
\* not in the failed list, also when the count differs from the number of
\* rows of the frame.
C15_MismatchNeverFails ==
    \A i \in 1..Len(counts) :
        counts[i] # -1 =>
            /\ steps[i] = StepOrder
            /\ InList(successful_loads, table_configs[i].table_name)
            /\ ~InList(failed_loads, table_configs[i].file)

\* A table whose read-back count was not the number of rows of its file has
\* been recorded as succeeded.
C15_Witness ==
    \E i \in 1..Len(counts) :
        /\ CondOf(env, i) = "count_mismatch"
        /\ counts[i] # -1 /\ counts[i] # env.rows
        /\ InList(successful_loads, table_configs[i].table_name)

\* The conditions under which a statement of the try block raises.
RaisingConditions ==
    {"unreadable", "absent_date_column", "nonfinite_int", "write_error",
     "index_error", "verify_error"}

IsPrefix(p, q) == Len(p) <= Len(q) /\ p = SubSeq(q, 1, Len(p))

\* C16: the steps of a table occur only in the order file check, read,
\* coerce, null profile, write, index creation, row-count read-back, none of
\* them twice; the table name is in the succeeded list only if all of them
\* completed, and when a step after the file check raises the file name is
\* in the failed list and the table name is not in the succeeded list.
C16_StepOrder ==
    \A i \in 1..Len(steps) :
        LET cfg == table_configs[i]
        IN  /\ steps[i] # <<>>
            /\ IsPrefix(steps[i], <<"file_check", "read", "coerce", "null_profile",
                                    "write", "index", "verify">>)
            /\ InList(successful_loads, cfg.table_name) =>
                  /\ Len(steps[i]) = 7
                  /\ counts[i] # -1
                  /\ CondOf(env, i) \notin RaisingConditions
                  /\ store.tables[cfg.table_name].exists
            /\ CondOf(env, i) \in RaisingConditions =>
                  /\ Len(steps[i]) >= 2
                  /\ InList(failed_loads, cfg.file)
                  /\ ~InList(successful_loads, cfg.table_name)

\* The loop has processed a table whose index creation raised after the
\* write, and a table that went through every step.
C16_Witness ==
    /\ \E i \in 1..Len(steps) :
          /\ CondOf(env, i) = "index_error"
          /\ steps[i] = <<"file_check", "read", "coerce", "null_profile",
                          "write", "index">>
          /\ InList(failed_loads, table_configs[i].file)
    /\ \E j \in 1..Len(steps) :
          /\ Len(steps[j]) = 7
          /\ InList(successful_loads, table_configs[j].table_name)

\* C17: a column without any non-null value gets the suggested type string
\* and an empty list of sample values, whatever its storage type.
C17_EmptyColumnIsString ==
    \A i \in Profiled :
        aresults[i].columns[1].non_null_count = 0 =>
            /\ SuggestedOf(i) = "string"
            /\ aresults[i].columns[1].sample_values = <<>>

\* C18: in every entry of table_configs the columns of date_columns are
\* declared columns mapped to datetime and every column mapped to datetime
\* is in date_columns, so no column reaches the coercion with the dtype
\* datetime without being in date_columns: the fallback parse never runs.
C18_DateColumnsAreDatetime ==
    /\ \A i \in 1..Len(table_configs) :
          LET cfg == table_configs[i]
          IN  /\ DateColumns(cfg) \subseteq DeclaredColumns(cfg)
              /\ \A k \in 1..Len(cfg.dtypes) :
                    cfg.dtypes[k][1] \in DateColumns(cfg)
                        <=> cfg.dtypes[k][2] = "datetime"
    /\ cdate <=> cdecl = "datetime"
    /\ ~(CoerceTried /\ cdecl = "datetime" /\ ~cdate)

\* A column declared datetime and listed in date_columns has passed the
\* coercion as the timestamps the reader parsed.
C18_Witness ==
    /\ cphase = "coerced" /\ cdecl = "datetime" /\ cdate
    /\ cframe.dtype = "datetime64[ns]"
    /\ Len(cframe.vals) > 0

\* C19: after the coercion of a column declared datetime every value is a
\* parsed timestamp or null, never text of the file, also when the column
\* holds a value that is no date.
C19_DatetimeColumnsHoldTimestamps ==
    (CoerceDone /\ cdecl = "datetime") =>
        /\ Len(cframe.vals) = Len(csrc)
        /\ \A i \in 1..Len(cframe.vals) :
              cframe.vals[i].k = "ts" \/ IsNull(cframe.vals[i])

NoDuplicates(list) ==
    \A j, k \in 1..Len(list) : list[j] = list[k] => j = k

\* The entries of the registry recorded in the list, by what the list
\* holds of them, in the order of the list.
RecordedIn(list, field) ==
    [k \in 1..Len(list) |->
        CHOOSE i \in 1..NumTables : table_configs[i][field] = list[k]]

Increasing(seq) == \A j, k \in 1..Len(seq) : j < k => seq[j] < seq[k]

\* C20: when load_csv_files returns every entry of the registry has been
\* attempted exactly once, in the order of the registry and whatever failed
\* before it, and is in exactly one of the two lists: its table name in the
\* succeeded list or its file name in the failed list; together the lists
\* have as many entries as the registry, without duplicates.
C20_EveryEntryInOneList ==
    /\ pc = "loop" =>
          Len(steps) = tpos /\ Len(successful_loads) + Len(failed_loads) = tpos
    /\ LoopOver =>
          /\ Len(steps) = NumTables /\ tpos = NumTables
          /\ Len(successful_loads) + Len(failed_loads) = NumTables
          /\ \A i \in 1..NumTables :
                InList(successful_loads, table_configs[i].table_name)
                    <=> ~InList(failed_loads, table_configs[i].file)
    /\ NoDuplicates(successful_loads) /\ NoDuplicates(failed_loads)
    /\ \A k \in 1..Len(successful_loads) : successful_loads[k] \in TableNames
    /\ \A k \in 1..Len(failed_loads) :
          \E i \in 1..NumTables : table_configs[i].file = failed_loads[k]
    /\ Increasing(RecordedIn(successful_loads, "table_name"))
    /\ Increasing(RecordedIn(failed_loads, "file"))

\* load_csv_files has returned with a failed entry before a succeeded one
\* and a succeeded one before a failed one.
C20_Witness ==
    /\ LoopOver
    /\ \E i, j, k \in 1..NumTables :
          /\ i < j /\ j < k
          /\ InList(successful_loads, table_configs[i].table_name)
          /\ InList(failed_loads, table_configs[j].file)
          /\ InList(successful_loads, table_configs[k].table_name)

IndexesOf(st, t) == {x \in st.indexes : x.table = t}

\* C21: when the load of a table has failed (its file name is in the failed
\* list) the table of the store and its indexes are as they were before the
\* attempt, also when the failure came during the index creation or the
\* row-count read-back.
C21_FailedLoadLeavesStore ==
    \A i \in 1..Len(steps) :
        LET cfg == table_configs[i]
        IN  InList(failed_loads, cfg.file) =>
                /\ store.tables[cfg.table_name] = RunStartStore.tables[cfg.table_name]
                /\ IndexesOf(store, cfg.table_name)
                      = IndexesOf(RunStartStore, cfg.table_name)

====
